---------------------------- MODULE Spec2Model ----------------------------
(***************************************************************************)
(* Client-side orchestration of the audio-compliance dashboard             *)
(* (static/dashboard.js): the singleton audio playback controller and the  *)
(* upload queue with its per-file task pollers.                            *)
(*                                                                         *)
(* Execution is single-threaded: every action below is one run-to-         *)
(* completion handler (a user event, a timer callback, a media event or    *)
(* the continuation of an await).                                          *)
(***************************************************************************)
EXTENDS Integers, Sequences, FiniteSets, TLC

VARIABLES
    \* ---- audio playback (dashboard.js 1697-1966) ----
    audios,             \* every Audio element created so far (the heap)
    currentAudio,       \* index into audios, 0 = null
    currentAnalysisId,  \* analysis id of the session, 0 = null
    playButtons,        \* ids whose row button carries the 'playing' class
    playerShown,        \* global audio player has the 'show' class
    audioLast,          \* the audio handler that ran last, with what it saw
    \* ---- upload queue and task polling (dashboard.js 1100-1310) ----
    uploadedFiles,      \* the global array of stored File objects
    queueList,          \* children of #queue-list: row indices, in order
    rows,               \* every queue-item element created so far
    uploadQueueShown,   \* #upload-queue is displayed
    runs,               \* startAnalysis invocations (async activations)
    trackers,           \* pollTaskStatus invocations (closures)
    clearTimers,        \* pending setTimeout(clearUploadQueue) callbacks
    \* ---- analysis table (dashboard.js 259-285, 485-762, 843-849) ----
    allAnalyses,        \* the records of the last table update
    filteredAnalyses,   \* the records the table is showing from
    currentPage,        \* 1-based page number
    isShowingAll,       \* paginated view (TRUE) or recent view (FALSE)
    searchInput,        \* value of #search-input
    tableBody,          \* records rendered in #analysis-table-body
    paginationShown,    \* #table-pagination is displayed
    loads,              \* loadDashboardData activations awaiting the backend
    issued,             \* loads started so far
    applied,            \* number of the load whose records are in the table
    \* ---- notification centre ----
    notified            \* notification types shown by the last handler

audioVars == <<audios, currentAudio, currentAnalysisId, playButtons,
               playerShown, audioLast>>
uploadVars == <<uploadedFiles, queueList, rows, uploadQueueShown, runs,
                trackers, clearTimers>>
listVars == <<allAnalyses, filteredAnalyses, currentPage, isShowingAll,
              searchInput, tableBody, paginationShown, loads, issued,
              applied>>
vars == <<audioVars, uploadVars, listVars, notified>>

-----------------------------------------------------------------------------
(* Bounds of the exploration *)

\* number of playAudio calls explored
MaxPlays == 2

\* analysis ids of the rendered rows (play buttons); 0 stands for null
AnalysisIds == {3, 5}

\* Elements created in the seeking specification.
SeekPlays == 1

\* Durations (seconds) the backend's audio files have.
Durations == {2}

\* Arguments of seekAudio: the range input gives 0..100, other callers any.
Percentages == {-50, 0, 50, 100, 150}

\* Upload queue (SpecUpload): queue-item elements created over the whole
\* run, startAnalysis activations suspended at the same time, submissions
\* the backend accepts (it answers non-OK to the rest), and "running"
\* answers the backend gives over all tasks.
MaxRows == 2
MaxRuns == 1
MaxTasks == 2
MaxRunning == 1

\* Task polling (SpecPoll): the same three, for the runs that follow one
\* task through its whole attempt budget.
PollRows == 1
PollRuns == 1
PollTasks == 1

\* The tasks the backend keeps reporting as running in SpecPoll; any other
\* task is answered queued, processing, completed or failed, or not at all.
LongRunning == {1}

\* Analysis table (SpecList): loads started, the first one included.
MaxLoads == 3

\* Sizes of the record lists the backend answers with in SpecList.
DatasetSizes == {0, 2, 12, 21}

\* Queue handling (SpecQueue): rows ever created.
QueueRows == 2

\* The backend of SpecQueue: the submissions it accepts (numbered in the
\* order of acceptance), and the attempt counts at which it reports a task
\* as running.
QueueTaskIds == {1}
QueueRunningAt == {0}

-----------------------------------------------------------------------------
(* Audio playback *)

\* new Audio(url) followed by play(): not paused, nothing loaded, the play
\* promise pending, the load watchdog armed.
NewAudio(analysisId) ==
    [id |-> analysisId, paused |-> FALSE, ready |-> FALSE, error |-> FALSE,
     ended |-> FALSE, promise |-> "pending", timeout |-> TRUE,
     duration |-> 0, currentTime |-> 0, seekTime |-> 0]

\* Assignment to HTMLMediaElement.currentTime: seekTime keeps the value the
\* script assigned, currentTime the position the element takes, which the
\* element limits to its seekable range [0, duration].
SetCurrentTime(a, t) ==
    [a EXCEPT !.seekTime = t,
              !.currentTime = IF t < 0 THEN 0
                              ELSE IF t > a.duration THEN a.duration
                              ELSE t]

\* HTMLMediaElement.pause(): sets paused and rejects a pending play promise
\* (the rejection handler runs later, as its own task).
Pause(a) ==
    IF a.paused THEN a
    ELSE [a EXCEPT !.paused = TRUE,
                   !.promise = IF @ = "pending" THEN "rejecting" ELSE @]

\* HTMLMediaElement.play() on an existing element (togglePlayPause).
Resume(a) == [a EXCEPT !.paused = FALSE]

\* The element is producing sound.
Audible(a) == ~a.paused /\ a.ready /\ ~a.error /\ ~a.ended

\* The element has been asked to play and has not been paused since.
Unpaused(a) == ~a.paused /\ ~a.error /\ ~a.ended

Loading(a) == ~a.paused /\ ~a.ready /\ ~a.error /\ ~a.ended

AudibleSet == {e \in 1..Len(audios) : Audible(audios[e])}
UnpausedSet == {e \in 1..Len(audios) : Unpaused(audios[e])}

\* Session state of the controller as the spec names it.
SessionState ==
    IF currentAudio = 0 THEN "stopped"
    ELSE IF audios[currentAudio].paused THEN "paused"
    ELSE IF audios[currentAudio].ready THEN "playing"
    ELSE "loading"

\* updatePlayButtons(analysisId, state) over one button per analysis id.
updatePlayButtons(analysisId, state) ==
    IF state = "playing" THEN {analysisId} \cap AnalysisIds
    ELSE playButtons \ {analysisId}

\* The common tail of the error, ended, watchdog and rejection callbacks.
Teardown(analysisId) ==
    /\ playButtons' = updatePlayButtons(analysisId, "stopped")
    /\ playerShown' = FALSE
    /\ currentAudio' = 0
    /\ currentAnalysisId' = 0

AudioLast(op, analysisId) ==
    [op |-> op, id |-> analysisId, prevId |-> currentAnalysisId,
     prevState |-> SessionState]

PlayAudioNoPause(analysisId) ==
    /\ Len(audios) < MaxPlays
    /\ audios' = Append(audios, NewAudio(analysisId))
    /\ currentAudio' = Len(audios) + 1
    /\ currentAnalysisId' = analysisId
    /\ playButtons' = updatePlayButtons(analysisId, "playing")
    /\ playerShown' = TRUE
    /\ audioLast' = AudioLast("play", analysisId)
    /\ notified' = <<>>
    /\ UNCHANGED <<uploadVars, listVars>>

PlayAudio(analysisId) ==
    /\ Len(audios) < MaxPlays
    /\ audios' = Append(
           IF currentAudio # 0
           THEN [audios EXCEPT ![currentAudio] = Pause(@)]
           ELSE audios,
           NewAudio(analysisId))
    /\ currentAudio' = Len(audios) + 1
    /\ currentAnalysisId' = analysisId
    /\ playButtons' = updatePlayButtons(analysisId, "playing")
    /\ playerShown' = TRUE
    /\ audioLast' = AudioLast("play", analysisId)
    /\ notified' = <<>>
    /\ UNCHANGED <<uploadVars, listVars>>

\* 'loadedmetadata' on element e: the duration becomes known.
LoadedMetadata(e) ==
    /\ ~audios[e].ready /\ ~audios[e].error /\ audios[e].duration = 0
    /\ \E d \in Durations : audios' = [audios EXCEPT ![e].duration = d]
    /\ notified' = <<>>
    /\ audioLast' = AudioLast("loadedmetadata", audios[e].id)
    /\ UNCHANGED <<currentAudio, currentAnalysisId, playButtons, playerShown>>
    /\ UNCHANGED <<uploadVars, listVars>>

\* 'timeupdate' on element e: playback has advanced by one second.
TimeUpdate(e) ==
    /\ Audible(audios[e]) /\ audios[e].currentTime < audios[e].duration
    /\ audios' = [audios EXCEPT ![e].currentTime = @ + 1]
    /\ notified' = <<>>
    /\ audioLast' = AudioLast("timeupdate", audios[e].id)
    /\ UNCHANGED <<currentAudio, currentAnalysisId, playButtons, playerShown>>
    /\ UNCHANGED <<uploadVars, listVars>>

\* 'canplay' on element e: both listeners run (notification and progress,
\* then clearTimeout(loadTimeout)); a pending play promise resolves. The
\* metadata, when not yet delivered, arrives before it.
CanPlay(e) ==
    /\ ~audios[e].ready /\ ~audios[e].error
    /\ \E d \in Durations :
           audios' = [audios EXCEPT
                         ![e].ready = TRUE, ![e].timeout = FALSE,
                         ![e].duration = IF @ = 0 THEN d ELSE @,
                         ![e].promise = IF @ = "pending" THEN "resolved"
                                        ELSE @]
    /\ notified' = <<"success">>
    /\ audioLast' = AudioLast("canplay", audios[e].id)
    /\ UNCHANGED <<currentAudio, currentAnalysisId, playButtons, playerShown>>
    /\ UNCHANGED <<uploadVars, listVars>>

\* 'error' on element e. The listener reads currentAudio.error: with
\* currentAudio null that read throws and the listener stops there.
MediaError(e) ==
    /\ ~audios[e].error /\ ~audios[e].ended
    /\ audios' = [audios EXCEPT ![e].error = TRUE,
                     ![e].promise = IF @ = "pending" THEN "rejecting" ELSE @]
    /\ audioLast' = AudioLast("error", audios[e].id)
    /\ IF currentAudio = 0
       THEN /\ notified' = <<>>
            /\ UNCHANGED <<currentAudio, currentAnalysisId, playButtons,
                           playerShown>>
       ELSE /\ notified' = <<"error">>
            /\ Teardown(audios[e].id)
    /\ UNCHANGED <<uploadVars, listVars>>

\* 'ended' on element e: playback reached the end (the element pauses).
Ended(e) ==
    /\ Audible(audios[e])
    /\ audios' = [audios EXCEPT ![e].ended = TRUE, ![e].paused = TRUE]
    /\ audioLast' = AudioLast("ended", audios[e].id)
    /\ notified' = <<>>
    /\ Teardown(audios[e].id)
    /\ UNCHANGED <<uploadVars, listVars>>

\* The 10 s load watchdog armed by the playAudio call that created e.
LoadTimeout(e) ==
    /\ audios[e].timeout
    /\ audios' = [audios EXCEPT ![e].timeout = FALSE]
    /\ audioLast' = AudioLast("watchdog", audios[e].id)
    /\ IF currentAudio # 0 /\ ~audios[currentAudio].ready
       THEN /\ notified' = <<"error">>
            /\ Teardown(audios[e].id)
       ELSE /\ notified' = <<>>
            /\ UNCHANGED <<currentAudio, currentAnalysisId, playButtons,
                           playerShown>>
    /\ UNCHANGED <<uploadVars, listVars>>

\* Rejection handler of the promise returned by e.play() in playAudio.
PlayRejected(e) ==
    /\ audios[e].promise = "rejecting"
    /\ audios' = [audios EXCEPT ![e].promise = "rejected",
                                ![e].timeout = FALSE]
    /\ audioLast' = AudioLast("rejected", audios[e].id)
    /\ notified' = <<"error">>
    /\ Teardown(audios[e].id)
    /\ UNCHANGED <<uploadVars, listVars>>

togglePlayPause ==
    /\ audioLast' = AudioLast("toggle", currentAnalysisId)
    /\ notified' = <<>>
    /\ IF currentAudio # 0
       THEN IF audios[currentAudio].paused
            THEN /\ audios' = [audios EXCEPT ![currentAudio] = Resume(@)]
                 /\ playButtons' =
                        updatePlayButtons(currentAnalysisId, "playing")
            ELSE /\ audios' = [audios EXCEPT ![currentAudio] = Pause(@)]
                 /\ playButtons' =
                        updatePlayButtons(currentAnalysisId, "paused")
       ELSE UNCHANGED <<audios, playButtons>>
    /\ UNCHANGED <<currentAudio, currentAnalysisId, playerShown>>
    /\ UNCHANGED <<uploadVars, listVars>>

stopAudioKeepsPosition ==
    /\ audioLast' = AudioLast("stop", currentAnalysisId)
    /\ notified' = <<>>
    /\ IF currentAudio # 0
       THEN /\ audios' = [audios EXCEPT ![currentAudio] = Pause(@)]
            /\ Teardown(currentAnalysisId)
       ELSE UNCHANGED <<audios, currentAudio, currentAnalysisId,
                        playButtons, playerShown>>
    /\ UNCHANGED <<uploadVars, listVars>>

stopAudio ==
    /\ audioLast' = AudioLast("stop", currentAnalysisId)
    /\ notified' = <<>>
    /\ IF currentAudio # 0
       THEN /\ audios' = [audios EXCEPT
                             ![currentAudio] = SetCurrentTime(Pause(@), 0)]
            /\ Teardown(currentAnalysisId)
       ELSE UNCHANGED <<audios, currentAudio, currentAnalysisId,
                        playButtons, playerShown>>
    /\ UNCHANGED <<uploadVars, listVars>>

\* seekAudio(percentage): (percentage / 100) * duration, exact here because
\* every duration in Durations times every percentage is a multiple of 100.
SeekTime(percentage, duration) == (percentage * duration) \div 100

seekAudio(percentage) ==
    /\ audioLast' = AudioLast("seek", currentAnalysisId)
    /\ notified' = <<>>
    /\ IF currentAudio # 0 /\ audios[currentAudio].duration # 0
       THEN audios' = [audios EXCEPT ![currentAudio] =
                          SetCurrentTime(@, SeekTime(percentage, @.duration))]
       ELSE UNCHANGED audios
    /\ UNCHANGED <<currentAudio, currentAnalysisId, playButtons, playerShown>>
    /\ UNCHANGED <<uploadVars, listVars>>

\* The close button of the global player.
hideGlobalAudioPlayer ==
    /\ playerShown
    /\ playerShown' = FALSE
    /\ audioLast' = AudioLast("hide", currentAnalysisId)
    /\ notified' = <<>>
    /\ UNCHANGED <<audios, currentAudio, currentAnalysisId, playButtons>>
    /\ UNCHANGED <<uploadVars, listVars>>

AudioInit ==
    /\ audios = <<>>
    /\ currentAudio = 0
    /\ currentAnalysisId = 0
    /\ playButtons = {}
    /\ playerShown = FALSE
    /\ audioLast = [op |-> "none", id |-> 0, prevId |-> 0,
                    prevState |-> "stopped"]

\* Playback with metadata, progress and seeking, over SeekPlays elements.
SeekNext ==
    \/ \E analysisId \in AnalysisIds :
           Len(audios) < SeekPlays /\ PlayAudio(analysisId)
    \/ \E e \in 1..Len(audios) : LoadedMetadata(e)
    \/ \E e \in 1..Len(audios) : CanPlay(e)
    \/ \E e \in 1..Len(audios) : TimeUpdate(e)
    \/ \E e \in 1..Len(audios) : MediaError(e)
    \/ \E e \in 1..Len(audios) : Ended(e)
    \/ \E e \in 1..Len(audios) : LoadTimeout(e)
    \/ \E e \in 1..Len(audios) : PlayRejected(e)
    \/ \E percentage \in Percentages : seekAudio(percentage)
    \/ togglePlayPause
    \/ stopAudio

AudioNext ==
    \/ \E analysisId \in AnalysisIds : PlayAudio(analysisId)
    \/ \E e \in 1..Len(audios) : CanPlay(e)
    \/ \E e \in 1..Len(audios) : MediaError(e)
    \/ \E e \in 1..Len(audios) : Ended(e)
    \/ \E e \in 1..Len(audios) : LoadTimeout(e)
    \/ \E e \in 1..Len(audios) : PlayRejected(e)
    \/ togglePlayPause
    \/ stopAudio
    \/ hideGlobalAudioPlayer

-----------------------------------------------------------------------------
(* Upload queue *)

\* File names as character sequences, so that the extension test is computed.
FileA == <<"a", ".", "m", "p", "3">>
FileB == <<"b", ".", "W", "a", "V">>
FileC == <<"c", ".", "t", "x", "t">>
FileD == <<"m", "p", "3">>

\* The file lists handed to addFilesToQueue by the picker or a drop.
FileLists == {<<FileA>>, <<FileB>>, <<FileD>>, <<FileB, FileC, FileA>>}

\* The one list handed over in the runs that follow a task's polling.
PollFileLists == {<<FileA>>}

Lower(c) ==
    CASE c = "W" -> "w"
      [] c = "A" -> "a"
      [] c = "V" -> "v"
      [] c = "M" -> "m"
      [] c = "P" -> "p"
      [] c = "B" -> "b"
      [] OTHER -> c

toLowerCase(name) == [i \in 1..Len(name) |-> Lower(name[i])]

endsWith(name, suffix) ==
    /\ Len(name) >= Len(suffix)
    /\ SubSeq(name, Len(name) - Len(suffix) + 1, Len(name)) = suffix

validTypes ==
    {<<".", "m", "p", "3">>, <<".", "w", "a", "v">>,
     <<".", "f", "l", "a", "c">>, <<".", "m", "4", "a">>,
     <<".", "o", "g", "g">>}

\* The extension test without the lower-casing of the name.
isValidAudioFileAsTyped(name) ==
    \E type \in validTypes : endsWith(name, type)

isValidAudioFile(name) ==
    \E type \in validTypes : endsWith(toLowerCase(name), type)

\* createQueueItem(file): the row shows the name and the size.
createQueueItem(name) == [file |-> name, status |-> "queued", dim |-> FALSE]

RECURSIVE ValidOf(_)
ValidOf(files) ==
    IF files = <<>> THEN <<>>
    ELSE IF isValidAudioFile(Head(files))
         THEN <<Head(files)>> \o ValidOf(Tail(files))
         ELSE ValidOf(Tail(files))

RECURSIVE InvalidNotes(_)
InvalidNotes(files) ==
    IF files = <<>> THEN <<>>
    ELSE IF isValidAudioFile(Head(files))
         THEN InvalidNotes(Tail(files))
         ELSE <<"error">> \o InvalidNotes(Tail(files))

\* addFilesToQueue storing every file, valid or not.
addFilesToQueueStoresAll(files) ==
    LET valid == ValidOf(files)
        n == Len(rows)
    IN  /\ uploadedFiles' = uploadedFiles \o files
        /\ rows' = rows \o [k \in 1..Len(valid) |-> createQueueItem(valid[k])]
        /\ queueList' = queueList \o [k \in 1..Len(valid) |-> n + k]
        /\ uploadQueueShown' =
               IF Len(queueList') > 0 THEN TRUE ELSE uploadQueueShown
        /\ notified' = InvalidNotes(files)
        /\ UNCHANGED <<runs, trackers, clearTimers>>
        /\ UNCHANGED <<audioVars, listVars>>

\* addFilesToQueue putting the new files and rows in front of the old ones.
addFilesToQueueAtFront(files) ==
    LET valid == ValidOf(files)
        n == Len(rows)
    IN  /\ uploadedFiles' = valid \o uploadedFiles
        /\ rows' = rows \o [k \in 1..Len(valid) |-> createQueueItem(valid[k])]
        /\ queueList' = [k \in 1..Len(valid) |-> n + k] \o queueList
        /\ uploadQueueShown' =
               IF Len(queueList') > 0 THEN TRUE ELSE uploadQueueShown
        /\ notified' = InvalidNotes(files)
        /\ UNCHANGED <<runs, trackers, clearTimers>>
        /\ UNCHANGED <<audioVars, listVars>>

\* addFilesToQueue(files), called by handleFileSelection and handleDrop.
addFilesToQueue(files) ==
    LET valid == ValidOf(files)
        n == Len(rows)
    IN  /\ uploadedFiles' = uploadedFiles \o valid
        /\ rows' = rows \o [k \in 1..Len(valid) |-> createQueueItem(valid[k])]
        /\ queueList' = queueList \o [k \in 1..Len(valid) |-> n + k]
        /\ uploadQueueShown' =
               IF Len(queueList') > 0 THEN TRUE ELSE uploadQueueShown
        /\ notified' = InvalidNotes(files)
        /\ UNCHANGED <<runs, trackers, clearTimers>>
        /\ UNCHANGED <<audioVars, listVars>>

\* clearUploadQueue without its last statement.
ClearedQueueKeepsFiles ==
    /\ queueList' = <<>>
    /\ uploadQueueShown' = FALSE
    /\ uploadedFiles' = uploadedFiles

\* The three assignments of clearUploadQueue.
ClearedQueue ==
    /\ queueList' = <<>>
    /\ uploadQueueShown' = FALSE
    /\ uploadedFiles' = <<>>

\* clearUploadQueue() called directly (spec: UploadQueue.clear()).
clearUploadQueue ==
    /\ ClearedQueue
    /\ notified' = <<>>
    /\ UNCHANGED <<rows, runs, trackers, clearTimers>>
    /\ UNCHANGED <<audioVars, listVars>>

\* The setTimeout(() => clearUploadQueue(), 2000) callback of a completion.
AutoClear ==
    /\ clearTimers > 0
    /\ clearTimers' = clearTimers - 1
    /\ ClearedQueue
    /\ notified' = <<>>
    /\ UNCHANGED <<rows, runs, trackers>>
    /\ UNCHANGED <<audioVars, listVars>>

-----------------------------------------------------------------------------
(* startAnalysis: one activation per click, suspended at its awaits.  The  *)
(* two awaits of one iteration (fetch, then response.json()) are one      *)
(* suspension here: the activation reads and writes nothing between them. *)

\* A run is [items, i]: the snapshot Array.from(queueList.children) and the
\* 1-based loop index of the submission being awaited.
RunStep(rs, run, i, files) ==
    \* loop test and head of iteration i, with the global uploadedFiles
    IF i <= Len(files) /\ i <= Len(run.items)
    THEN [rows |-> [rs EXCEPT ![run.items[i]].dim = TRUE],
          run  |-> <<[items |-> run.items, i |-> i, file |-> files[i]]>>,
          note |-> <<>>]
    ELSE [rows |-> rs, run |-> <<>>, note |-> <<"success">>]

RemoveAt(seq, k) == SubSeq(seq, 1, k - 1) \o SubSeq(seq, k + 1, Len(seq))

\* startAnalysis without its two early returns.
startAnalysisUnchecked ==
    /\ UNCHANGED <<uploadedFiles, queueList, uploadQueueShown, trackers,
                   clearTimers>>
    /\ UNCHANGED <<audioVars, listVars>>
    /\ LET st == RunStep(rows, [items |-> queueList], 1, uploadedFiles)
       IN  /\ rows' = st.rows
           /\ runs' = runs \o st.run
           /\ notified' = <<"info">> \o st.note

startAnalysis ==
    /\ UNCHANGED <<uploadedFiles, queueList, uploadQueueShown, trackers,
                   clearTimers>>
    /\ UNCHANGED <<audioVars, listVars>>
    /\ IF Len(queueList) = 0
       THEN /\ notified' = <<"warning">>
            /\ UNCHANGED <<rows, runs>>
       ELSE IF Len(uploadedFiles) = 0
       THEN /\ notified' = <<"warning">>
            /\ UNCHANGED <<rows, runs>>
       ELSE LET st == RunStep(rows, [items |-> queueList], 1, uploadedFiles)
            IN  /\ rows' = st.rows
                /\ runs' = runs \o st.run
                /\ notified' = <<"info">> \o st.note

\* pollTaskStatus(taskId, item, fileName) up to its first await: the
\* closure and the first request.
NewTracker(item) ==
    [item |-> item, attempts |-> 0, pc |-> "fetching", outcome |-> "none",
     polls |-> 1, seen |-> 0, fault |-> "none", notes |-> 0, clears |-> 0,
     requests |-> 1, timers |-> 0]

\* The submission awaited by run r is answered with 2xx and a task id.
SubmitOk(r) ==
    /\ r \in 1..Len(runs)
    /\ LET run == runs[r]
           item == run.items[run.i]
           rs == [rows EXCEPT ![item].status = "processing"]
           st == RunStep(rs, run, run.i + 1, uploadedFiles)
       IN  /\ trackers' = Append(trackers, NewTracker(item))
           /\ rows' = st.rows
           /\ runs' = RemoveAt(runs, r) \o st.run
           /\ notified' = st.note
    /\ UNCHANGED <<uploadedFiles, queueList, uploadQueueShown, clearTimers>>
    /\ UNCHANGED <<audioVars, listVars>>

\* The catch block leaving the loop after the failure.
SubmitFailStops(r) ==
    /\ r \in 1..Len(runs)
    /\ rows' = [rows EXCEPT ![runs[r].items[runs[r].i]].status =
                                "submitfailed"]
    /\ runs' = RemoveAt(runs, r)
    /\ notified' = <<"error">>
    /\ UNCHANGED <<uploadedFiles, queueList, uploadQueueShown, trackers,
                   clearTimers>>
    /\ UNCHANGED <<audioVars, listVars>>

\* The submission fails: fetch rejects, the status is not OK, or the body
\* does not parse.  All three end in the catch block.
SubmitFail(r) ==
    /\ r \in 1..Len(runs)
    /\ LET run == runs[r]
           item == run.items[run.i]
           rs == [rows EXCEPT ![item].status = "submitfailed"]
           st == RunStep(rs, run, run.i + 1, uploadedFiles)
       IN  /\ rows' = st.rows
           /\ runs' = RemoveAt(runs, r) \o st.run
           /\ notified' = <<"error">> \o st.note
    /\ UNCHANGED <<uploadedFiles, queueList, uploadQueueShown, trackers,
                   clearTimers>>
    /\ UNCHANGED <<audioVars, listVars>>

-----------------------------------------------------------------------------
(* pollTaskStatus: one closure per accepted submission.  As in            *)
(* startAnalysis, the fetch and the response.json() of one poll are one   *)
(* suspension.                                                            *)

maxAttempts == 30

\* Bodies GET /tasks/{id} is taken to answer with.
TaskStatuses == {"queued", "running", "processing", "completed", "failed"}

PollBranchInclusive(status, attempts) ==
    IF status = "completed" THEN "completed"
    ELSE IF status = "failed" THEN "failed"
    ELSE IF status = "running" /\ attempts <= maxAttempts THEN "again"
    ELSE "timeout"

\* The four branches on status.status of a 2xx poll response.
PollBranch(status, attempts) ==
    IF status = "completed" THEN "completed"
    ELSE IF status = "failed" THEN "failed"
    ELSE IF status = "running" /\ attempts < maxAttempts THEN "again"
    ELSE "timeout"

\* The awaited request is answered: one request fewer is outstanding, and
\* the closure's history of what it has heard so far.
Heard(tr, status) ==
    [tr EXCEPT !.seen = IF status = "running" THEN @ + 1 ELSE @,
               !.requests = @ - 1]

OnCompletedRepoll(t, status) ==
    /\ rows' = [rows EXCEPT ![trackers[t].item].status = "completed"]
    /\ notified' = <<"success">>
    /\ clearTimers' = clearTimers + 1
    /\ trackers' = [trackers EXCEPT ![t] =
           [Heard(@, status) EXCEPT !.pc = "waiting", !.outcome = "completed",
                                    !.timers = @ + 1,
                                    !.notes = @ + 1, !.clears = @ + 1]]

\* status 'completed': the row, one notification, one auto-clear timer.
OnCompleted(t, status) ==
    /\ rows' = [rows EXCEPT ![trackers[t].item].status = "completed"]
    /\ notified' = <<"success">>
    /\ clearTimers' = clearTimers + 1
    /\ trackers' = [trackers EXCEPT ![t] =
           [Heard(@, status) EXCEPT !.pc = "done", !.outcome = "completed",
                                    !.notes = @ + 1, !.clears = @ + 1]]

OnFailedSilent(t, status) ==
    /\ rows' = [rows EXCEPT ![trackers[t].item].status = "failed"]
    /\ notified' = <<>>
    /\ trackers' = [trackers EXCEPT ![t] =
           [Heard(@, status) EXCEPT !.pc = "done", !.outcome = "failed"]]
    /\ UNCHANGED clearTimers

\* status 'failed': the row and one notification.
OnFailed(t, status) ==
    /\ rows' = [rows EXCEPT ![trackers[t].item].status = "failed"]
    /\ notified' = <<"error">>
    /\ trackers' = [trackers EXCEPT ![t] =
           [Heard(@, status) EXCEPT !.pc = "done", !.outcome = "failed",
                                    !.notes = @ + 1]]
    /\ UNCHANGED clearTimers

\* The running branch with the poll re-armed twice.
OnRunningTwice(t, status) ==
    /\ trackers' = [trackers EXCEPT ![t] =
           [Heard(@, status) EXCEPT !.pc = "waiting", !.attempts = @ + 1,
                                    !.timers = @ + 2]]
    /\ notified' = <<>>
    /\ UNCHANGED <<rows, clearTimers>>

OnRunningNotifies(t, status) ==
    /\ trackers' = [trackers EXCEPT ![t] =
           [Heard(@, status) EXCEPT !.pc = "waiting", !.attempts = @ + 1,
                                    !.timers = @ + 1, !.notes = @ + 1]]
    /\ notified' = <<"info">>
    /\ UNCHANGED <<rows, clearTimers>>

\* status 'running' within the budget: attempts++, setTimeout(poll, 1000).
OnRunning(t, status) ==
    /\ trackers' = [trackers EXCEPT ![t] =
           [Heard(@, status) EXCEPT !.pc = "waiting", !.attempts = @ + 1,
                                    !.timers = @ + 1]]
    /\ notified' = <<>>
    /\ UNCHANGED <<rows, clearTimers>>

\* The final else: the row shows Timeout.
OnTimeout(t, status) ==
    /\ rows' = [rows EXCEPT ![trackers[t].item].status = "timeout"]
    /\ notified' = <<>>
    /\ trackers' = [trackers EXCEPT ![t] =
           [Heard(@, status) EXCEPT !.pc = "done", !.outcome = "timeout"]]
    /\ UNCHANGED clearTimers

\* The poll request of tracker t is answered 2xx with a parsable status.
PollResponse(t, status) ==
    /\ trackers[t].pc = "fetching"
    /\ LET branch == PollBranch(status, trackers[t].attempts)
       IN  CASE branch = "completed" -> OnCompleted(t, status)
             [] branch = "failed" -> OnFailed(t, status)
             [] branch = "again" -> OnRunning(t, status)
             [] OTHER -> OnTimeout(t, status)
    /\ UNCHANGED <<uploadedFiles, queueList, uploadQueueShown, runs>>
    /\ UNCHANGED <<audioVars, listVars>>

\* The poll request is answered with a non-OK HTTP status: the if has no
\* else, so the closure returns without touching anything.
PollNotOk(t) ==
    /\ trackers[t].pc = "fetching"
    /\ trackers' = [trackers EXCEPT ![t].pc = "done", ![t].fault = "notok",
                                    ![t].requests = @ - 1]
    /\ notified' = <<>>
    /\ UNCHANGED <<uploadedFiles, queueList, rows, uploadQueueShown, runs,
                   clearTimers>>
    /\ UNCHANGED <<audioVars, listVars>>

\* fetch rejects or response.json() throws: the catch block.
PollThrows(t) ==
    /\ trackers[t].pc = "fetching"
    /\ rows' = [rows EXCEPT ![trackers[t].item].status = "error"]
    /\ trackers' = [trackers EXCEPT ![t].pc = "done", ![t].fault = "threw",
                                    ![t].outcome = "error",
                                    ![t].requests = @ - 1]
    /\ notified' = <<>>
    /\ UNCHANGED <<uploadedFiles, queueList, uploadQueueShown, runs,
                   clearTimers>>
    /\ UNCHANGED <<audioVars, listVars>>

\* The setTimeout(poll, 1000) callback: the next request goes out.
PollTimer(t) ==
    /\ trackers[t].pc = "waiting"
    /\ trackers' = [trackers EXCEPT ![t].pc = "fetching",
                                    ![t].polls = @ + 1,
                                    ![t].timers = @ - 1,
                                    ![t].requests = @ + 1]
    /\ notified' = <<>>
    /\ UNCHANGED <<uploadedFiles, queueList, rows, uploadQueueShown, runs,
                   clearTimers>>
    /\ UNCHANGED <<audioVars, listVars>>

-----------------------------------------------------------------------------
(* Analysis table: the records of the last load, the search filter, the    *)
(* recent and the paginated view.                                          *)

itemsPerPage == 10

\* The recent view shows analyses.slice(0, 5).
recentLimit == 5

\* An analysis record as the table uses it: its id and its file name.
Analysis(i) ==
    [id |-> i,
     filename |-> IF i % 2 = 1 THEN <<"a", ".", "m", "p", "3">>
                  ELSE <<"B", ".", "w", "a", "v">>]

\* Bodies GET /api/analyses is taken to answer with: the first n records.
AnalysesOf(n) == [i \in 1..n |-> Analysis(i)]
Datasets == {AnalysesOf(n) : n \in DatasetSizes}

\* Values typed into #search-input.
SearchTerms == {<<>>, <<" ">>, <<"A", ".">>, <<"b">>, <<"1">>, <<"z">>}

\* Array.prototype.slice(start, end) on a sequence (0-based, end excluded;
\* a negative index counts from the end, both are clamped to the length).
SliceIndex(len, i) ==
    IF i < 0 THEN (IF len + i < 0 THEN 0 ELSE len + i)
    ELSE IF i > len THEN len ELSE i

slice(seq, start, end) ==
    LET from == SliceIndex(Len(seq), start)
        to == SliceIndex(Len(seq), end)
    IN  IF from < to THEN SubSeq(seq, from + 1, to) ELSE <<>>

\* String.prototype.includes.
includes(str, sub) ==
    \E k \in 0..(Len(str) - Len(sub)) : SubSeq(str, k + 1, k + Len(sub)) = sub

\* String.prototype.trim, for the blank this model types.
RECURSIVE trimStart(_)
trimStart(str) ==
    IF str # <<>> /\ Head(str) = " " THEN trimStart(Tail(str)) ELSE str

RECURSIVE trimEnd(_)
trimEnd(str) ==
    IF str # <<>> /\ str[Len(str)] = " "
    THEN trimEnd(SubSeq(str, 1, Len(str) - 1))
    ELSE str

trim(str) == trimEnd(trimStart(str))

\* Number.prototype.toString for the ids.
Digits == <<"0", "1", "2", "3", "4", "5", "6", "7", "8", "9">>

RECURSIVE toString(_)
toString(n) ==
    IF n < 10 THEN <<Digits[n + 1]>>
    ELSE toString(n \div 10) \o <<Digits[(n % 10) + 1]>>

\* Math.ceil(totalItems / itemsPerPage).
TotalPages(totalItems) == (totalItems + itemsPerPage - 1) \div itemsPerPage

\* The filter callback looking at the file name only.
SearchMatchesFilename(analysis, searchTerm) ==
    includes(toLowerCase(analysis.filename), toLowerCase(searchTerm))

\* The filter callback of performSearch.
SearchMatches(analysis, searchTerm) ==
    LET filename == IF analysis.filename # <<>>
                    THEN toLowerCase(analysis.filename) ELSE <<>>
        searchLower == toLowerCase(searchTerm)
    IN  \/ includes(filename, searchLower)
        \/ includes(toString(analysis.id), searchLower)

\* displayAnalysesWithPagination(analyses) at a given currentPage: the
\* rendered window and the visibility updatePagination gives the controls.
PageWindow(analyses, page) ==
    slice(analyses, (page - 1) * itemsPerPage,
          (page - 1) * itemsPerPage + itemsPerPage)

PaginationFor(totalItems) == TotalPages(totalItems) > 1

\* updateAnalysisTable without the reset to the first page.
updateAnalysisTableKeepsPage(analyses) ==
    /\ allAnalyses' = analyses
    /\ filteredAnalyses' = analyses
    /\ currentPage' = currentPage
    /\ IF ~isShowingAll
       THEN /\ tableBody' = slice(analyses, 0, recentLimit)
            /\ UNCHANGED paginationShown
       ELSE /\ tableBody' = PageWindow(analyses, currentPage)
            /\ paginationShown' = PaginationFor(Len(analyses))
    /\ UNCHANGED <<isShowingAll, searchInput>>

\* updateAnalysisTable(analyses).
updateAnalysisTable(analyses) ==
    /\ allAnalyses' = analyses
    /\ filteredAnalyses' = analyses
    /\ currentPage' = 1
    /\ IF ~isShowingAll
       THEN /\ tableBody' = slice(analyses, 0, recentLimit)
            /\ UNCHANGED paginationShown
       ELSE /\ tableBody' = PageWindow(analyses, 1)
            /\ paginationShown' = PaginationFor(Len(analyses))
    /\ UNCHANGED <<isShowingAll, searchInput>>

\* performSearch without the reset to the first page.
performSearchKeepsPage(searchTerm) ==
    LET found == IF trim(searchTerm) = <<>> THEN allAnalyses
                 ELSE SelectSeq(allAnalyses,
                                LAMBDA a : SearchMatches(a, searchTerm))
    IN  /\ searchInput' = searchTerm
        /\ filteredAnalyses' = found
        /\ currentPage' = currentPage
        /\ IF isShowingAll
           THEN /\ tableBody' = PageWindow(found, currentPage)
                /\ paginationShown' = PaginationFor(Len(found))
           ELSE /\ tableBody' = slice(found, 0, recentLimit)
                /\ UNCHANGED paginationShown
        /\ notified' = IF trim(searchTerm) = <<>> THEN <<>>
                       ELSE IF Len(found) = 0 THEN <<"warning">>
                       ELSE <<"success">>
        /\ UNCHANGED <<allAnalyses, isShowingAll, loads, issued, applied>>
        /\ UNCHANGED <<audioVars, uploadVars>>

\* performSearch(searchTerm), the input listener of #search-input.
performSearch(searchTerm) ==
    LET found == IF trim(searchTerm) = <<>> THEN allAnalyses
                 ELSE SelectSeq(allAnalyses,
                                LAMBDA a : SearchMatches(a, searchTerm))
    IN  /\ searchInput' = searchTerm
        /\ filteredAnalyses' = found
        /\ currentPage' = 1
        /\ IF isShowingAll
           THEN /\ tableBody' = PageWindow(found, 1)
                /\ paginationShown' = PaginationFor(Len(found))
           ELSE /\ tableBody' = slice(found, 0, recentLimit)
                /\ UNCHANGED paginationShown
        /\ notified' = IF trim(searchTerm) = <<>> THEN <<>>
                       ELSE IF Len(found) = 0 THEN <<"warning">>
                       ELSE <<"success">>
        /\ UNCHANGED <<allAnalyses, isShowingAll, loads, issued, applied>>
        /\ UNCHANGED <<audioVars, uploadVars>>

showAllAnalyses ==
    /\ isShowingAll' = TRUE
    /\ currentPage' = 1
    /\ tableBody' = PageWindow(filteredAnalyses, 1)
    /\ paginationShown' = PaginationFor(Len(filteredAnalyses))
    /\ notified' = <<"info">>
    /\ UNCHANGED <<allAnalyses, filteredAnalyses, searchInput, loads, issued,
                   applied>>
    /\ UNCHANGED <<audioVars, uploadVars>>

\* showRecentAnalyses leaving the pagination controls as they are.
showRecentAnalysesKeepsControls ==
    /\ isShowingAll' = FALSE
    /\ currentPage' = 1
    /\ paginationShown' = paginationShown
    /\ tableBody' = slice(filteredAnalyses, 0, recentLimit)
    /\ notified' = <<"info">>
    /\ UNCHANGED <<allAnalyses, filteredAnalyses, searchInput, loads, issued,
                   applied>>
    /\ UNCHANGED <<audioVars, uploadVars>>

showRecentAnalyses ==
    /\ isShowingAll' = FALSE
    /\ currentPage' = 1
    /\ paginationShown' = FALSE
    /\ tableBody' = slice(filteredAnalyses, 0, recentLimit)
    /\ notified' = <<"info">>
    /\ UNCHANGED <<allAnalyses, filteredAnalyses, searchInput, loads, issued,
                   applied>>
    /\ UNCHANGED <<audioVars, uploadVars>>

\* changePage testing the lower end of the range only.
changePageNoUpperEnd(direction) ==
    LET newPage == currentPage + direction
    IN  /\ IF newPage >= 1
           THEN /\ currentPage' = newPage
                /\ tableBody' = PageWindow(filteredAnalyses, newPage)
                /\ paginationShown' = PaginationFor(Len(filteredAnalyses))
           ELSE UNCHANGED <<currentPage, tableBody, paginationShown>>
        /\ notified' = <<>>
        /\ UNCHANGED <<allAnalyses, filteredAnalyses, isShowingAll,
                       searchInput, loads, issued, applied>>
        /\ UNCHANGED <<audioVars, uploadVars>>

\* changePage testing the upper end of the range only.
changePageNoLowerEnd(direction) ==
    LET totalPages == TotalPages(Len(filteredAnalyses))
        newPage == currentPage + direction
    IN  /\ IF newPage <= totalPages
           THEN /\ currentPage' = newPage
                /\ tableBody' = PageWindow(filteredAnalyses, newPage)
                /\ paginationShown' = PaginationFor(Len(filteredAnalyses))
           ELSE UNCHANGED <<currentPage, tableBody, paginationShown>>
        /\ notified' = <<>>
        /\ UNCHANGED <<allAnalyses, filteredAnalyses, isShowingAll,
                       searchInput, loads, issued, applied>>
        /\ UNCHANGED <<audioVars, uploadVars>>

changePage(direction) ==
    LET totalPages == TotalPages(Len(filteredAnalyses))
        newPage == currentPage + direction
    IN  /\ IF newPage >= 1 /\ newPage <= totalPages
           THEN /\ currentPage' = newPage
                /\ tableBody' = PageWindow(filteredAnalyses, newPage)
                /\ paginationShown' = PaginationFor(Len(filteredAnalyses))
           ELSE UNCHANGED <<currentPage, tableBody, paginationShown>>
        /\ notified' = <<>>
        /\ UNCHANGED <<allAnalyses, filteredAnalyses, isShowingAll,
                       searchInput, loads, issued, applied>>
        /\ UNCHANGED <<audioVars, uploadVars>>

\* getMockStats() and getMockAnalyses(), as far as the table reads them.
getMockStats == [total_analyses |-> 0]

getMockAnalyses ==
    <<[id |-> 1, filename |-> <<
        "s", "a", "m", "p", "l", "e", "_", "s", "o", "n", "g", ".", "m",
        "p", "3">>],
      [id |-> 2, filename |-> <<
        "a", "n", "o", "t", "h", "e", "r", "_", "t", "r", "a", "c", "k",
        ".", "w", "a", "v">>],
      [id |-> 3, filename |-> <<
        "t", "e", "s", "t", "_", "a", "u", "d", "i", "o", ".", "f", "l",
        "a", "c">>]>>

\* Bodies GET /api/dashboard-stats is taken to answer with.
StatsBodies == {[total_analyses |-> 0], [total_analyses |-> 12]}

\* The table part of updateDashboardMetrics(stats, analyses, rules), run
\* for load n: with no analyses counted it returns before the table update.
updateDashboardMetrics(stats, analyses, n) ==
    IF stats.total_analyses = 0
    THEN UNCHANGED <<allAnalyses, filteredAnalyses, currentPage, isShowingAll,
                     searchInput, tableBody, paginationShown, applied>>
    ELSE /\ updateAnalysisTable(analyses)
         /\ applied' = n

\* loadDashboardData() up to its first await, called by the 30 s interval
\* (and once when the page has loaded, see ListInit).
loadDashboardData ==
    /\ loads' = Append(loads, [n |-> issued + 1, refresh |-> FALSE])
    /\ issued' = issued + 1
    /\ notified' = <<>>
    /\ UNCHANGED <<allAnalyses, filteredAnalyses, currentPage, isShowingAll,
                   searchInput, tableBody, paginationShown, applied>>
    /\ UNCHANGED <<audioVars, uploadVars>>

\* refreshAnalyses() up to the first await of the load it starts.
refreshAnalyses ==
    /\ loads' = Append(loads, [n |-> issued + 1, refresh |-> TRUE])
    /\ issued' = issued + 1
    /\ notified' = <<"info">>
    /\ UNCHANGED <<allAnalyses, filteredAnalyses, currentPage, isShowingAll,
                   searchInput, tableBody, paginationShown, applied>>
    /\ UNCHANGED <<audioVars, uploadVars>>

\* What refreshAnalyses shows once the load it awaits has returned.
AfterLoad(k) == IF loads[k].refresh THEN <<"success">> ELSE <<>>

\* The three requests of load k are answered and parsed: stats, the
\* analyses (the empty list when that response is not OK) and the rules.
LoadAnswered(k, stats, analyses) ==
    /\ k \in 1..Len(loads)
    /\ updateDashboardMetrics(stats, analyses, loads[k].n)
    /\ loads' = RemoveAt(loads, k)
    /\ notified' = AfterLoad(k)
    /\ UNCHANGED issued
    /\ UNCHANGED <<audioVars, uploadVars>>

\* A request of load k rejects or a body does not parse: the catch block
\* of loadDashboardData, which returns normally.
LoadThrows(k) ==
    /\ k \in 1..Len(loads)
    /\ updateDashboardMetrics(getMockStats, getMockAnalyses, loads[k].n)
    /\ loads' = RemoveAt(loads, k)
    /\ notified' = AfterLoad(k)
    /\ UNCHANGED issued
    /\ UNCHANGED <<audioVars, uploadVars>>

-----------------------------------------------------------------------------
(* Next-state relations.  The guards written here are the bounds of the   *)
(* exploration and the behaviour taken for the backend; the actions are   *)
(* the handlers.                                                          *)

\* Rows each list adds (computed once).
ValidCount == [files \in FileLists |-> Len(ValidOf(files))]

RECURSIVE SumSeen(_)
SumSeen(t) == IF t = 0 THEN 0 ELSE trackers[t].seen + SumSeen(t - 1)

UploadNext ==
    \/ \E files \in FileLists :
           /\ Len(rows) + ValidCount[files] <= MaxRows
           /\ addFilesToQueue(files)
    \/ clearUploadQueue
    \/ AutoClear
    \/ Len(runs) < MaxRuns /\ startAnalysis
    \/ \E r \in 1..Len(runs) : Len(trackers) < MaxTasks /\ SubmitOk(r)
    \/ \E r \in 1..Len(runs) : SubmitFail(r)
    \/ \E t \in 1..Len(trackers), status \in TaskStatuses :
           /\ status = "running" => SumSeen(Len(trackers)) < MaxRunning
           /\ PollResponse(t, status)
    \/ \E t \in 1..Len(trackers) : PollNotOk(t)
    \/ \E t \in 1..Len(trackers) : PollThrows(t)
    \/ \E t \in 1..Len(trackers) : PollTimer(t)

PollNext ==
    \/ \E files \in PollFileLists :
           /\ Len(rows) + ValidCount[files] <= PollRows
           /\ addFilesToQueue(files)
    \/ clearUploadQueue
    \/ AutoClear
    \/ Len(runs) < PollRuns /\ startAnalysis
    \/ \E r \in 1..Len(runs) : Len(trackers) < PollTasks /\ SubmitOk(r)
    \/ \E r \in 1..Len(runs) : SubmitFail(r)
    \/ \E t \in 1..Len(trackers), status \in TaskStatuses :
           /\ status = "running" => t \in LongRunning
           /\ PollResponse(t, status)
    \/ \E t \in 1..Len(trackers) : PollNotOk(t)
    \/ \E t \in 1..Len(trackers) : PollThrows(t)
    \/ \E t \in 1..Len(trackers) : PollTimer(t)

\* The queue with few tasks, each polled a few times, and one activation
\* of startAnalysis at a time.
QueueNext ==
    \/ \E files \in FileLists :
           /\ Len(rows) + ValidCount[files] <= QueueRows
           /\ addFilesToQueue(files)
    \/ clearUploadQueue
    \/ AutoClear
    \/ runs = <<>> /\ startAnalysis
    \/ \E r \in 1..Len(runs) :
           Len(trackers) + 1 \in QueueTaskIds /\ SubmitOk(r)
    \/ \E r \in 1..Len(runs) : SubmitFail(r)
    \/ \E t \in 1..Len(trackers), status \in TaskStatuses :
           /\ status = "running" => trackers[t].attempts \in QueueRunningAt
           /\ PollResponse(t, status)
    \/ \E t \in 1..Len(trackers) : PollNotOk(t)
    \/ \E t \in 1..Len(trackers) : PollThrows(t)
    \/ \E t \in 1..Len(trackers) : PollTimer(t)

\* Steps changePage is called with (the two buttons, and a jump).
Directions == {-1, 1, 2}

ListNext ==
    \/ issued < MaxLoads /\ loadDashboardData
    \/ issued < MaxLoads /\ refreshAnalyses
    \/ \E k \in 1..Len(loads), stats \in StatsBodies, analyses \in Datasets :
           LoadAnswered(k, stats, analyses)
    \/ \E k \in 1..Len(loads) : LoadThrows(k)
    \/ \E searchTerm \in SearchTerms : performSearch(searchTerm)
    \/ showAllAnalyses
    \/ showRecentAnalyses
    \/ \E direction \in Directions : changePage(direction)

\* The table before the first load returns; DOMContentLoaded has called
\* loadDashboardData() once.
ListInit ==
    /\ allAnalyses = <<>>
    /\ filteredAnalyses = <<>>
    /\ currentPage = 1
    /\ isShowingAll = FALSE
    /\ searchInput = <<>>
    /\ tableBody = <<>>
    /\ paginationShown = FALSE
    /\ loads = <<[n |-> 1, refresh |-> FALSE]>>
    /\ issued = 1
    /\ applied = 0

UploadInit ==
    /\ uploadedFiles = <<>>
    /\ queueList = <<>>
    /\ rows = <<>>
    /\ uploadQueueShown = FALSE
    /\ runs = <<>>
    /\ trackers = <<>>
    /\ clearTimers = 0

Init == AudioInit /\ UploadInit /\ ListInit /\ notified = <<>>

SpecAudio == Init /\ [][AudioNext]_vars

SpecUpload == Init /\ [][UploadNext]_vars

SpecPoll == Init /\ [][PollNext]_vars

SpecQueue == Init /\ [][QueueNext]_vars

SpecList == Init /\ [][ListNext]_vars
SpecSeek == Init /\ [][SeekNext]_vars

-----------------------------------------------------------------------------
(* Audio playback: properties *)

\* C1: in every reachable state at most one media element is audible
\* (not paused and playable), and an audible element is the one the
\* controller holds as its session.
C1_SingleAudibleSession ==
    /\ Cardinality(AudibleSet) <= 1
    /\ \A e \in AudibleSet : e = currentAudio

\* C2: play(B) while a session for A # B is active pauses A's media,
\* replaces the controller's reference by a new element for B that is
\* loading, and changes the set of un-paused elements by exactly that:
\* A's element leaves it, B's element enters it.
C2_PlaySupersedes ==
    [][\A b \in AnalysisIds :
         (PlayAudio(b) /\ currentAudio # 0 /\ currentAnalysisId # b) =>
            /\ audios'[currentAudio].paused
            /\ currentAudio' = Len(audios')
            /\ currentAudio' # currentAudio
            /\ currentAnalysisId' = b
            /\ audios'[currentAudio'].id = b
            /\ Loading(audios'[currentAudio'])
            /\ SessionState' = "loading"
            /\ UnpausedSet' = (UnpausedSet \ {currentAudio})
                                   \cup {currentAudio'}
            /\ \A e \in 1..Len(audios) :
                   e # currentAudio => audios'[e] = audios[e]]_vars

\* C2 witness: play(5) has just run while the session for 3 was playing.
C2_Witness ==
    /\ audioLast.op = "play"
    /\ audioLast.id = 5
    /\ audioLast.prevId = 3
    /\ audioLast.prevState = "playing"
    /\ currentAnalysisId = 5
    /\ audios[1].paused

-----------------------------------------------------------------------------
(* Task polling: properties *)

TrackerIds == 1..Len(trackers)

\* C3: a poll answered completed sets the row to Completed, shows one
\* success notification, arms one auto-clear timer and ends the tracker;
\* the transition is taken from a non-terminal tracker only, and a
\* completed tracker never changes again (no poll, notification or timer).
C3_CompletedOnce ==
    [][\A t \in TrackerIds :
         /\ PollResponse(t, "completed") =>
               /\ trackers[t].outcome = "none"
               /\ trackers'[t].outcome = "completed"
               /\ trackers'[t].pc = "done"
               /\ trackers'[t].polls = trackers[t].polls
               /\ rows'[trackers[t].item].status = "completed"
               /\ notified' = <<"success">>
               /\ trackers'[t].notes = 1
               /\ clearTimers' = clearTimers + 1
               /\ trackers'[t].clears = 1
         /\ trackers[t].outcome = "completed" =>
               trackers'[t] = trackers[t]]_vars

\* C3 witness: a tracker has completed and its auto-clear is pending.
C3_Witness ==
    \E t \in TrackerIds :
        /\ trackers[t].outcome = "completed"
        /\ trackers[t].pc = "done"
        /\ trackers[t].notes = 1
        /\ trackers[t].clears = 1
        /\ clearTimers = 1
        /\ rows[trackers[t].item].status = "completed"

\* C4 (as stated): once 30 running responses have been processed the
\* tracker is timed out, and no 31st poll is issued.
C4_TimedOutAfter30 ==
    \A t \in TrackerIds :
        /\ trackers[t].seen = 30 =>
               trackers[t].outcome = "timeout" /\ trackers[t].pc = "done"
        /\ trackers[t].polls <= 30

\* C4 (amended): the 30th running response still schedules a 31st poll;
\* once 31 running responses have been processed the tracker is timed
\* out, and no 32nd poll is issued.
C4_TimedOutAfter31 ==
    \A t \in TrackerIds :
        /\ trackers[t].seen = 30 /\ trackers[t].polls = 30 =>
               /\ trackers[t].outcome = "none"
               /\ trackers[t].pc = "waiting"
        /\ trackers[t].seen = 31 =>
               /\ trackers[t].outcome = "timeout"
               /\ trackers[t].pc = "done"
        /\ trackers[t].seen <= 31
        /\ trackers[t].polls <= 31

\* C4 witness: a tracker timed out on its 31st running response.
C4_Witness ==
    \E t \in TrackerIds :
        /\ trackers[t].seen = 31
        /\ trackers[t].polls = 31
        /\ trackers[t].outcome = "timeout"

\* C5: while attempts < 30, a response of processing or running adds one
\* to attempts, schedules one further poll and leaves the tracker
\* non-terminal.
C5_ProcessingOrRunningRepolls ==
    [][\A t \in TrackerIds : \A status \in {"processing", "running"} :
         (PollResponse(t, status) /\ trackers[t].attempts < maxAttempts) =>
            /\ trackers'[t].attempts = trackers[t].attempts + 1
            /\ trackers'[t].pc = "waiting"
            /\ trackers'[t].outcome = "none"]_vars

\* C6: a tracker is timed out only with its attempt budget exhausted.
C6_TimeoutOnlyWhenExhausted ==
    \A t \in TrackerIds :
        trackers[t].outcome = "timeout" =>
            trackers[t].attempts >= maxAttempts

\* C7: a poll answered failed sets the row to Failed, shows one error
\* notification, arms no timer and ends the tracker; a failed tracker
\* never changes again.
C7_FailedOnce ==
    [][\A t \in TrackerIds :
         /\ PollResponse(t, "failed") =>
               /\ trackers[t].outcome = "none"
               /\ trackers'[t].outcome = "failed"
               /\ trackers'[t].pc = "done"
               /\ trackers'[t].polls = trackers[t].polls
               /\ rows'[trackers[t].item].status = "failed"
               /\ notified' = <<"error">>
               /\ trackers'[t].notes = 1
               /\ clearTimers' = clearTimers
               /\ trackers'[t].clears = 0
         /\ trackers[t].outcome = "failed" =>
               trackers'[t] = trackers[t]]_vars

\* C7 witness: the first poll of a task was answered failed.
C7_Witness ==
    \E t \in TrackerIds :
        /\ trackers[t].outcome = "failed"
        /\ trackers[t].polls = 1
        /\ trackers[t].notes = 1
        /\ trackers[t].pc = "done"
        /\ rows[trackers[t].item].status = "failed"

InQueue(item) == \E k \in 1..Len(queueList) : queueList[k] = item

\* A failed row that no live tracker can still write to.
FailedAtRest(item) ==
    /\ InQueue(item)
    /\ rows[item].status = "failed"
    /\ \E t \in TrackerIds :
           trackers[t].item = item /\ trackers[t].outcome = "failed"
    /\ \A t \in TrackerIds :
           trackers[t].item = item => trackers[t].pc = "done"
    /\ \A r \in 1..Len(runs) : runs[r].items[runs[r].i] # item

\* C8: a row whose tracker ended in failed stays in the queue, showing
\* Failed, across every step that is not an action of the user.
C8_FailedStaysUntilUserClears ==
    [][\A item \in 1..Len(rows) :
         (FailedAtRest(item)
            /\ ~clearUploadQueue
            /\ ~startAnalysis
            /\ ~(\E files \in FileLists : addFilesToQueue(files))) =>
         (InQueue(item)' /\ rows'[item].status = "failed")]_vars

\* C9: a poll that failed in transport or parsing (rejected request,
\* non-OK status, unparsable body) leaves the tracker errored and idle.
C9_PollFailureIsErrored ==
    \A t \in TrackerIds :
        trackers[t].fault # "none" =>
            trackers[t].outcome = "error" /\ trackers[t].pc = "done"

\* C10: a tracker that has not reached a terminal state always has a poll
\* request or a poll timer pending.
C10_NonTerminalHasPollPending ==
    \A t \in TrackerIds :
        trackers[t].outcome = "none" =>
            trackers[t].pc \in {"fetching", "waiting"}

\* C11: a tracker that ended on a failure path (failed, timed out or
\* errored) has shown a notification.
C11_FailureTerminalNotifies ==
    \A t \in TrackerIds :
        trackers[t].outcome \in {"failed", "timeout", "error"} =>
            trackers[t].notes >= 1

\* C12: a tracker shows no notification while it is non-terminal and at
\* most one over its whole life, however many polls it makes.
C12_AtMostOneNotification ==
    \A t \in TrackerIds :
        /\ trackers[t].notes <= 1
        /\ trackers[t].outcome = "none" => trackers[t].notes = 0
        /\ trackers[t].notes = 1 =>
               trackers[t].outcome \in {"completed", "failed"}

\* C12 witness: a tracker polled several times and then reached a
\* terminal state with its one notification.
C12_Witness ==
    \E t \in TrackerIds :
        /\ trackers[t].polls >= 3
        /\ trackers[t].outcome = "completed"
        /\ trackers[t].notes = 1

\* C13: within one tracker polls never overlap: at most one poll request
\* or poll timer is outstanding, a request exactly while the closure awaits
\* its answer and a timer exactly while it waits for the next poll, however
\* many other trackers are polling.
C13_PollsNeverOverlap ==
    \A t \in TrackerIds :
        /\ trackers[t].requests \in {0, 1}
        /\ trackers[t].timers \in {0, 1}
        /\ trackers[t].requests + trackers[t].timers <= 1
        /\ trackers[t].pc = "fetching" <=> trackers[t].requests = 1
        /\ trackers[t].pc = "waiting" <=> trackers[t].timers = 1

\* C13 witness: a tracker that re-armed its poll is on its second request
\* while another tracker has a request of its own outstanding.
C13_Witness ==
    \E t \in TrackerIds, u \in TrackerIds :
        /\ t # u
        /\ trackers[t].polls = 2
        /\ trackers[t].requests = 1
        /\ trackers[u].requests = 1

\* C14: once the row of a tracker's file has been removed from the queue,
\* the tracker issues no further poll, writes no row, shows no notification
\* and schedules no auto-clear.
C14_ClearedTrackerIsInert ==
    [][\A t \in TrackerIds :
           ~InQueue(trackers[t].item) =>
               /\ trackers'[t].polls = trackers[t].polls
               /\ trackers'[t].outcome = trackers[t].outcome
               /\ trackers'[t].notes = trackers[t].notes
               /\ trackers'[t].clears = trackers[t].clears]_vars

\* C15: a step of a tracker rewrites the row of its own file only, and the
\* auto-clear a completion schedules removes no row that is still queued or
\* processing (another file still in flight, or one added afterwards).
C15_TrackerTouchesOwnFileOnly ==
    [][/\ \A t \in TrackerIds :
              trackers'[t] # trackers[t] =>
                  \A i \in 1..Len(rows) :
                      i # trackers[t].item => rows'[i] = rows[i]
       /\ clearTimers' < clearTimers =>
              \A k \in 1..Len(queueList) :
                  rows[queueList[k]].status \in {"queued", "processing"} =>
                      \E j \in 1..Len(queueList') :
                          queueList'[j] = queueList[k]]_vars

-----------------------------------------------------------------------------
(* Upload queue: properties *)

\* Two names are the same up to the case of their letters.
SameIgnoringCase(a, b) ==
    /\ Len(a) = Len(b)
    /\ \A i \in 1..Len(a) : Lower(a[i]) = Lower(b[i])

\* The name ends, case-insensitively, in one of the five audio extensions.
HasAudioExtension(name) ==
    \E n \in {4, 5} :
        /\ Len(name) >= n
        /\ \E ext \in {<<".", "m", "p", "3">>, <<".", "w", "a", "v">>,
                        <<".", "f", "l", "a", "c">>, <<".", "m", "4", "a">>,
                        <<".", "o", "g", "g">>} :
               SameIgnoringCase(SubSeq(name, Len(name) - n + 1, Len(name)), ext)

\* Positions of the files of one call that are to be rejected / accepted.
Rejected(files) == {k \in 1..Len(files) : ~HasAudioExtension(files[k])}
Accepted(files) == {k \in 1..Len(files) : HasAudioExtension(files[k])}

\* The step is a call add(files): a step that leaves activations, trackers
\* and timers alone and is the handler's step for these files.
AddStep(files) ==
    /\ runs' = runs
    /\ trackers' = trackers
    /\ clearTimers' = clearTimers
    /\ addFilesToQueue(files)

\* C16: for the files of one add() call whose name has no audio extension:
\* none of them becomes a queue entry or a row, a call with only such files
\* leaves the queue as it was, each of them is answered by exactly one
\* error notification, and the valid files of the same call are all added.
C16_InvalidFilesRejected ==
    [][\A files \in FileLists :
           AddStep(files) =>
               LET old == Len(uploadedFiles)
                   added == SubSeq(uploadedFiles', old + 1, Len(uploadedFiles'))
                   newRows == SubSeq(rows', Len(rows) + 1, Len(rows'))
               IN  /\ \A k \in 1..Len(added) : HasAudioExtension(added[k])
                   /\ \A k \in 1..Len(newRows) :
                          HasAudioExtension(newRows[k].file)
                   /\ Len(added) = Cardinality(Accepted(files))
                   /\ Len(newRows) = Cardinality(Accepted(files))
                   /\ Len(queueList') =
                          Len(queueList) + Cardinality(Accepted(files))
                   /\ \A k \in Accepted(files) :
                          \E j \in 1..Len(added) : added[j] = files[k]
                   /\ Accepted(files) = {} =>
                          UNCHANGED <<uploadedFiles, queueList, rows,
                                      uploadQueueShown>>
                   /\ notified' =
                          [k \in 1..Cardinality(Rejected(files)) |-> "error"]]_vars

\* C16 witness: the drop of b.WaV, c.txt and a.mp3 has been handled: one
\* rejection shown, the two audio files queued.
C16_Witness ==
    /\ uploadedFiles = <<FileB, FileA>>
    /\ Len(queueList) = 2
    /\ notified = <<"error">>
    /\ runs = <<>>
    /\ trackers = <<>>

\* The files of one call that are to be accepted, in arrival order.
AcceptedSeq(files) == SelectSeq(files, HasAudioExtension)

\* The file names shown by the rows of the queue, top to bottom.
RowFiles(list, rs) == [k \in 1..Len(list) |-> rs[list[k]].file]

\* C17: an add() call appends its valid files at the end of the queue in
\* arrival order: the stored files and the rows after the call are those
\* before it followed by the call's valid files, and the earlier entries
\* keep their places and their content.
C17_AppendedInArrivalOrder ==
    [][\A files \in FileLists :
           AddStep(files) =>
               /\ uploadedFiles' = uploadedFiles \o AcceptedSeq(files)
               /\ SubSeq(queueList', 1, Len(queueList)) = queueList
               /\ RowFiles(queueList', rows') =
                      RowFiles(queueList, rows) \o AcceptedSeq(files)
               /\ \A i \in 1..Len(rows) : rows'[i] = rows[i]]_vars

\* C17 witness: two calls without a clear in between, a.mp3 and then
\* b.WaV: the queue is the two files in call order.
C17_Witness ==
    /\ uploadedFiles = <<FileA, FileB>>
    /\ RowFiles(queueList, rows) = <<FileA, FileB>>
    /\ queueList = <<1, 2>>

\* The step is a click on the start button.
StartStep ==
    /\ trackers' = trackers
    /\ queueList' = queueList
    /\ startAnalysis

\* The step is a clear(), called directly or by the timer of a completion.
ClearStep ==
    /\ trackers' = trackers
    /\ runs' = runs
    /\ clearUploadQueue \/ AutoClear

\* C18: clear() leaves no stored file and no row in the queue and hides the
\* container, whatever the statuses of the rows were, and a submitAll on
\* the queue it leaves reports that no files are queued and starts nothing.
C18_ClearEmptiesQueue ==
    [][/\ ClearStep =>
              /\ uploadedFiles' = <<>>
              /\ queueList' = <<>>
              /\ uploadQueueShown' = FALSE
       /\ (StartStep /\ uploadedFiles = <<>> /\ queueList = <<>>
              /\ ~uploadQueueShown) =>
              /\ notified' = <<"warning">>
              /\ runs' = runs]_vars

\* C18 witness: the queue was cleared while a file was processing, and the
\* click on start that followed was answered with the warning.
C18_Witness ==
    /\ uploadedFiles = <<>>
    /\ queueList = <<>>
    /\ ~uploadQueueShown
    /\ \E i \in 1..Len(rows) : rows[i].status = "processing"
    /\ notified = <<"warning">>

\* C19: submitAll on an empty queue shows the no-files warning and nothing
\* else: no submission is started, no tracker is created, and the stored
\* files, the rows and the container are as before.
C19_SubmitAllOnEmptyQueue ==
    [][(StartStep /\ (queueList = <<>> \/ uploadedFiles = <<>>)) =>
           /\ notified' = <<"warning">>
           /\ runs' = runs
           /\ trackers' = trackers
           /\ UNCHANGED <<uploadedFiles, queueList, rows, uploadQueueShown,
                          clearTimers>>]_vars

\* C19 witness: start was clicked before any file was ever added.
C19_Witness ==
    /\ rows = <<>>
    /\ queueList = <<>>
    /\ runs = <<>>
    /\ trackers = <<>>
    /\ notified = <<"warning">>

\* The step is the failure of the submission that activation r awaits.
FailStep(r) ==
    /\ trackers' = trackers
    /\ queueList' = queueList
    /\ SubmitFail(r)

\* C20: when the submission of file i fails, row i alone is marked failed,
\* exactly one error notification is shown, no tracker is created, and,
\* the queue being the one the activation started with, file i+1 is
\* submitted next (after the last file the activation ends).
C20_FailureDoesNotBlockNext ==
    [][\A r \in 1..Len(runs) :
           FailStep(r) =>
               LET items == runs[r].items
                   i == runs[r].i
               IN  /\ rows'[items[i]].status = "submitfailed"
                   /\ \A k \in 1..Len(rows) :
                          k # items[i] => rows'[k].status = rows[k].status
                   /\ Cardinality({k \in 1..Len(notified') :
                                       notified'[k] = "error"}) = 1
                   /\ trackers' = trackers
                   /\ (queueList = items /\ i < Len(items)) =>
                          \E q \in 1..Len(runs') :
                              /\ runs'[q].items = items
                              /\ runs'[q].i = i + 1
                              /\ runs'[q].file = uploadedFiles[i + 1]
                   /\ (queueList = items /\ i = Len(items)) =>
                          Len(runs') = Len(runs) - 1]_vars

\* C20 witness: the first file's submission failed and left no tracker;
\* the second file was submitted after it and is being processed.
C20_Witness ==
    /\ Len(rows) >= 2
    /\ rows[1].status = "submitfailed"
    /\ rows[2].status = "processing"
    /\ \A t \in TrackerIds : trackers[t].item # 1
    /\ \E t \in TrackerIds : trackers[t].item = 2

-----------------------------------------------------------------------------
(* Analysis table: properties *)

\* C21: in every reachable state the current page is a page of the
\* filtered records: at least 1 and, 10 records to a page, not beyond the
\* page holding the last record; with no filtered record it is 1.
C21_PageInRange ==
    IF filteredAnalyses # <<>>
    THEN /\ currentPage >= 1
         /\ (currentPage - 1) * 10 < Len(filteredAnalyses)
    ELSE currentPage = 1

\* C21 witness: the last of three pages is shown.
C21_Witness ==
    /\ Len(filteredAnalyses) = 21
    /\ currentPage = 3
    /\ Len(tableBody) = 1

\* The step is a search(term): the loads and the mode stay as they are and
\* the step is the input listener's for this term.
SearchStep(term) ==
    /\ searchInput' = term
    /\ loads' = loads
    /\ isShowingAll' = isShowingAll
    /\ allAnalyses' = allAnalyses
    /\ performSearch(term)

\* C22: every search, whatever the term (empty, blank, matching or not)
\* and from whatever page and mode, ends on page 1.
C22_SearchResetsPage ==
    [][\A term \in SearchTerms : SearchStep(term) => currentPage' = 1]_vars

\* C22 witness: a search for "1" over 21 records in the paginated view has
\* just been answered: 12 records found, page 1.
C22_Witness ==
    /\ Len(allAnalyses) = 21
    /\ searchInput = <<"1">>
    /\ Len(filteredAnalyses) = 12
    /\ isShowingAll
    /\ notified = <<"success">>
    /\ currentPage = 1

\* The step is a changePage(delta).
PageStep(delta) ==
    /\ searchInput' = searchInput
    /\ loads' = loads
    /\ filteredAnalyses' = filteredAnalyses
    /\ isShowingAll' = isShowingAll
    /\ changePage(delta)

\* C23: changePage(delta) moves to page currentPage + delta exactly when
\* that is a page of the filtered records (10 to a page) and then shows
\* that page's records; otherwise the page and the rendered rows stay as
\* they are, as they always do when there is no filtered record.
C23_ChangePageWithinRange ==
    [][\A delta \in Directions :
           PageStep(delta) =>
               LET n == Len(filteredAnalyses)
                   target == currentPage + delta
                   rest == n - (target - 1) * 10
               IN  IF target >= 1 /\ rest > 0
                   THEN /\ currentPage' = target
                        /\ Len(tableBody') = IF rest < 10 THEN rest ELSE 10
                        /\ \A k \in 1..Len(tableBody') :
                               tableBody'[k] =
                                   filteredAnalyses[(target - 1) * 10 + k]
                   ELSE UNCHANGED <<currentPage, tableBody,
                                    paginationShown>>]_vars

\* C23 witness: 12 records in the paginated view, page 2 showing the last
\* two of them.
C23_Witness ==
    /\ isShowingAll
    /\ Len(filteredAnalyses) = 12
    /\ currentPage = 2
    /\ tableBody = <<filteredAnalyses[11], filteredAnalyses[12]>>
    /\ paginationShown

\* str contains sub, the case of the letters aside.
ContainsIgnoringCase(str, sub) ==
    \E k \in 0..(Len(str) - Len(sub)) :
        SameIgnoringCase(SubSeq(str, k + 1, k + Len(sub)), sub)

\* The term is empty or made of blanks only.
Blank(term) == \A i \in 1..Len(term) : term[i] = " "

\* The records of a list that a term selects, in the order of the list.
Selected(records, term) ==
    SelectSeq(records,
              LAMBDA a : \/ ContainsIgnoringCase(a.filename, term)
                         \/ includes(toString(a.id), term))

\* C24: after search(term) the filtered records are, for a term that is
\* not blank, exactly the loaded records, in their order, whose file name
\* contains the term case-insensitively or whose id in decimal contains
\* it, and for an empty or blank term all the loaded records.
C24_SearchFilters ==
    [][\A term \in SearchTerms :
           SearchStep(term) =>
               filteredAnalyses' = IF Blank(term) THEN allAnalyses
                                   ELSE Selected(allAnalyses, term)]_vars

\* C24 witness: "b" typed over 12 loaded records has selected the six
\* named B.wav, the first of them the record with id 2.
C24_Witness ==
    /\ Len(allAnalyses) = 12
    /\ searchInput = <<"b">>
    /\ Len(filteredAnalyses) = 6
    /\ filteredAnalyses[1].id = 2
    /\ notified = <<"success">>

\* The step is a hydrate(records): a load is answered with counted
\* analyses and hands these records to the table.
HydrateStep(records) ==
    /\ Len(loads') < Len(loads)
    /\ applied' # applied
    /\ \E k \in 1..Len(loads), stats \in StatsBodies :
           /\ stats.total_analyses # 0
           /\ LoadAnswered(k, stats, records)

\* C25: hydrate(records) makes the loaded and the filtered records the
\* given ones, puts the page at 1, leaves the mode alone and renders the
\* window of that mode: the first 5 records in the recent view, the first
\* 10 (page 1) in the paginated view.
C25_HydrateReplacesAndRenders ==
    [][\A records \in Datasets :
           HydrateStep(records) =>
               LET limit == IF isShowingAll THEN 10 ELSE 5
               IN  /\ allAnalyses' = records
                   /\ filteredAnalyses' = records
                   /\ currentPage' = 1
                   /\ isShowingAll' = isShowingAll
                   /\ Len(tableBody') = IF Len(records) < limit
                                        THEN Len(records) ELSE limit
                   /\ \A k \in 1..Len(tableBody') :
                          tableBody'[k] = records[k]]_vars

\* C25 witness: a refresh has brought 21 records into the paginated view:
\* page 1 shows the first ten.
C25_Witness ==
    /\ applied >= 2
    /\ isShowingAll
    /\ Len(allAnalyses) = 21
    /\ filteredAnalyses = allAnalyses
    /\ searchInput = <<>>
    /\ currentPage = 1
    /\ Len(tableBody) = 10
    /\ notified = <<"success">>

\* C26: in every reachable state the filtered records are the loaded
\* records filtered by the term in the search box, also after a reload
\* that arrives while a term is typed in.
C26_FilteredFollowsTerm ==
    filteredAnalyses = IF Blank(searchInput) THEN allAnalyses
                       ELSE Selected(allAnalyses, searchInput)

\* C27: the response of a load that was started before the load whose
\* records are in the table is discarded: it changes neither the loaded
\* nor the filtered records, and the table stays that of the later load.
C27_StaleResponseDiscarded ==
    [][\A k \in 1..Len(loads) :
           (loads' = RemoveAt(loads, k) /\ loads[k].n < applied) =>
               UNCHANGED <<allAnalyses, filteredAnalyses, applied>>]_vars

\* C28: when a load fails with a transport or parse error, the table is
\* given the mock analyses: after the failed load they are the loaded
\* records and the rendered rows are theirs.
C28_FailedLoadFallsBackToMock ==
    [][\A k \in 1..Len(loads) :
           (loads' = RemoveAt(loads, k) /\ LoadThrows(k)) =>
               /\ allAnalyses' = getMockAnalyses
               /\ tableBody' = getMockAnalyses]_vars

\* C29: a refresh whose load fails is reported with a failure
\* notification, and no success notification is shown for it.
C29_FailedRefreshReported ==
    [][\A k \in 1..Len(loads) :
           (loads' = RemoveAt(loads, k) /\ loads[k].refresh
              /\ LoadThrows(k)) =>
               notified' = <<"error">>]_vars

\* The step is a setMode: the records, the term and the loads stay.
ModeStep ==
    /\ loads' = loads
    /\ searchInput' = searchInput
    /\ filteredAnalyses' = filteredAnalyses

\* The records of a list at positions first..last, as far as there are any.
Positions(records, first, last) ==
    [k \in 1..((IF last < Len(records) THEN last ELSE Len(records))
                 - first + 1) |-> records[first + k - 1]]

\* C30: setMode(recent) renders the first min(5, n) filtered records and
\* hides the pagination controls; setMode(all-paginated) renders the
\* filtered records at positions (currentPage-1)*10+1 .. currentPage*10
\* and shows the controls exactly when there is more than one page of 10.
C30_SetModeRenders ==
    [][/\ (ModeStep /\ showRecentAnalyses) =>
              /\ tableBody' = Positions(filteredAnalyses, 1, 5)
              /\ ~paginationShown'
       /\ (ModeStep /\ showAllAnalyses) =>
              /\ tableBody' = Positions(filteredAnalyses,
                                        (currentPage' - 1) * 10 + 1,
                                        currentPage' * 10)
              /\ paginationShown' <=> Len(filteredAnalyses) > 10]_vars

\* C30 witness: the view was switched back to recent over 12 filtered
\* records: five rows, no pagination controls.
C30_Witness ==
    /\ issued = 1
    /\ ~isShowingAll
    /\ Len(filteredAnalyses) = 12
    /\ Len(tableBody) = 5
    /\ ~paginationShown
    /\ notified = <<"info">>

-----------------------------------------------------------------------------
(* Audio playback: further properties *)

\* C31: when the load watchdog of the session's element fires before the
\* element has become playable, the session is torn down: the element is
\* stopped (paused), the indicator of its id is cleared and the controller
\* holds no session; an element that became playable has no watchdog left.
C31_WatchdogTearsDown ==
    [][\A e \in 1..Len(audios) :
           /\ (e = currentAudio /\ ~audios[e].ready /\ LoadTimeout(e)) =>
                  /\ audios'[e].paused
                  /\ audios[e].id \notin playButtons'
                  /\ currentAudio' = 0
                  /\ currentAnalysisId' = 0
           /\ audios[e].ready => ~audios[e].timeout]_vars

\* C32: togglePause() turns a playing session into a paused one and a paused
\* one into a playing one; with no session, or with a session that is still
\* loading, it changes nothing and makes no call on the media element.
C32_ToggleSwitchesOrNoOp ==
    [][(audioLast'.op = "toggle" /\ togglePlayPause) =>
           /\ SessionState = "playing" => SessionState' = "paused"
           /\ (SessionState = "paused" /\ audios[currentAudio].ready) =>
                  SessionState' = "playing"
           /\ SessionState \in {"stopped", "loading"} =>
                  /\ audios' = audios
                  /\ playButtons' = playButtons]_vars

StopStep == audioLast'.op = "stop" /\ stopAudio

C34_SeekWithinDuration ==
    [][\A percentage \in Percentages :
           (audioLast'.op = "seek" /\ seekAudio(percentage)) =>
               IF currentAudio # 0 /\ audios[currentAudio].duration # 0
               THEN /\ audios'[currentAudio].seekTime
                           \in 0..audios[currentAudio].duration
                    /\ audios'[currentAudio].currentTime
                           \in 0..audios[currentAudio].duration
               ELSE audios' = audios]_vars

ErrorStep(e) ==
    \/ audioLast'.op = "error" /\ MediaError(e)
    \/ audioLast'.op = "rejected" /\ PlayRejected(e)

\* C35: after any playback error (an error event of an element, or the
\* rejection of its play request) an error notification has been shown, the
\* controller holds no session and no indicator is left on.
C35_ErrorEndsSession ==
    [][\A e \in 1..Len(audios) :
           ErrorStep(e) =>
               /\ "error" \in {notified'[k] : k \in 1..Len(notified')}
               /\ currentAudio' = 0
               /\ currentAnalysisId' = 0
               /\ playButtons' = {}
               /\ ~playerShown']_vars

CallbackStep(e) ==
    \/ audioLast'.op = "error" /\ MediaError(e)
    \/ audioLast'.op = "ended" /\ Ended(e)
    \/ audioLast'.op = "watchdog" /\ LoadTimeout(e)
    \/ audioLast'.op = "rejected" /\ PlayRejected(e)

\* C36: the callbacks of an element that is no longer the controller's
\* element (error, ended, watchdog expiry, rejection of its play request)
\* never change the current session: the element reference, the analysis id,
\* the indicator of the current id and the player stay as they are.
C36_StaleCallbacksAreInert ==
    [][\A e \in 1..Len(audios) :
           (e # currentAudio /\ currentAudio # 0 /\ CallbackStep(e)) =>
               /\ currentAudio' = currentAudio
               /\ currentAnalysisId' = currentAnalysisId
               /\ (currentAnalysisId \in playButtons') =
                      (currentAnalysisId \in playButtons)
               /\ playerShown' = playerShown]_vars

-----------------------------------------------------------------------------
(* Upload queue: further properties *)

\* A submission awaited by run r is answered.
AnswerStep(r) == runs # <<>> /\ runs' # runs /\ (SubmitOk(r) \/ SubmitFail(r))

\* C37: every file that was in the queue when startAnalysis started is
\* submitted by that activation, whatever add, clear or the auto-clear timer
\* do while a submission is awaited: the activation ends only after the
\* last row of its snapshot, and each submission sends the file of its row.
C37_EveryQueuedFileSubmitted ==
    [][\A r \in 1..Len(runs) :
           AnswerStep(r) =>
               /\ runs' = <<>> => runs[r].i = Len(runs[r].items)
               /\ \A q \in 1..Len(runs') :
                      runs'[q].file = rows'[runs'[q].items[runs'[q].i]].file
      ]_vars

\* C38: a queued file is submitted at most once: a row whose submission is
\* awaited has not been submitted before (its status is still "queued"), and
\* no row has two trackers.
C38_SubmittedAtMostOnce ==
    /\ \A r \in 1..Len(runs) :
           rows[runs[r].items[runs[r].i]].status = "queued"
    /\ \A t, u \in 1..Len(trackers) :
           t # u => trackers[t].item # trackers[u].item

\* C39: the stored files and the rendered rows of the queue have the same
\* length, and the i-th row shows the i-th stored file.
C39_FilesMatchRows ==
    /\ Len(uploadedFiles) = Len(queueList)
    /\ \A k \in 1..Len(queueList) : rows[queueList[k]].file = uploadedFiles[k]

C39_Witness ==
    /\ queueList = <<2>>
    /\ uploadedFiles = <<FileB>>
    /\ rows[1].file = FileA

-----------------------------------------------------------------------------
(* Analysis table: further properties *)

\* C40: the rendered rows always match the mode: in recent mode the first
\* min(5, n) filtered records, in paginated mode the filtered records of
\* page currentPage (10 per page); changePage never puts a page window on
\* screen while the mode is recent.
C40_RowsMatchMode ==
    tableBody =
        IF isShowingAll
        THEN Positions(filteredAnalyses, (currentPage - 1) * 10 + 1,
                       currentPage * 10)
        ELSE Positions(filteredAnalyses, 1, 5)

=============================================================================
